---- MODULE Spec2Model ----
(***************************************************************************)
(* Model of the /search request handler of src/main.py.                    *)
(*                                                                         *)
(* The handler is a straight-line sequence of calls to a remote agent      *)
(* platform.  One action models one remote call together with the local    *)
(* code that follows it up to the next remote call (or the return).  The   *)
(* platform keeps the agents and the threads; what a remote call returns   *)
(* that the handler does not control (listing order, run status, the       *)
(* assistant's messages, a failure) is drawn from small sets.              *)
(***************************************************************************)
EXTENDS Integers, Sequences, FiniteSets, TLC

VARIABLES
    env,            \* os.environ: a partial map from variable name to value
    agents,         \* platform: the project's agents, in creation order
    threads,        \* platform: threads[t] = messages posted to thread t
    nruns,          \* platform: number of runs created so far
    pc,             \* per request: the remote call the handler is about to make
    query,          \* per request: the query parameter
    agents_list,    \* per request: local agents_list (line 82)
    agent,          \* per request: local agent (lines 83-98)
    thread,         \* per request: id of local thread (line 102), 0 before
    run,            \* per request: local run snapshot (lines 115, 124)
    messages_list,  \* per request: local messages_list (line 137)
    response,       \* per request: how the handler ended
    calls           \* per request: log of the remote calls made, in order

vars == <<env, agents, threads, nruns, pc, query, agents_list, agent, thread,
          run, messages_list, response, calls>>

platform == <<agents, threads, nruns>>

----------------------------------------------------------------------------
(* Bounds of the model. *)

\* Agents the project holds before the first request.
MaxInitAgents == 2
\* Assistant messages the platform puts on one thread.
MaxAssistantMsgs == 2
\* Content blocks over all assistant messages of one thread.
MaxBlocks == 2

----------------------------------------------------------------------------
(* Values. *)

\* Python's None.
None == [none |-> TRUE]

Requests == {"r1", "r2"}

\* The query parameter of each request.
QueryOf == [r \in Requests |-> IF r = "r1" THEN "q1" ELSE "q2"]

PROJECT_CONNECTION_STRING == "PROJECT_CONNECTION_STRING"
BING_RESOURCE_NAME == "BING_RESOURCE_NAME"

\* The value of AGENT_NAME, and the name of some other agent of the project.
agent_name == "bing-agent"
OtherName == "other-agent"

\* str(e) of the exceptions the remote calls raise.
ErrorMsgs == {"unauthorized", "timeout"}

\* Text is a sequence of characters; these are the whitespace ones.
Whitespace == {" ", "\n"}

Min(S) == CHOOSE x \in S : \A y \in S : x <= y
Max(S) == CHOOSE x \in S : \A y \in S : x >= y

RECURSIVE Reverse(_)
Reverse(s) == IF s = <<>> THEN <<>> ELSE Append(Reverse(Tail(s)), Head(s))

\* The sequences over S of length at most n.
SeqsUpTo(S, n) == UNION {[1..k -> S] : k \in 0..n}

----------------------------------------------------------------------------
(* The handler's local computations. *)

\* How a handler invocation can end.
Pending == [outcome |-> "pending"]
Returned(body) == [outcome |-> "returned", body |-> body]
Raised(exc) == [outcome |-> "raised", exc |-> exc]

\* os.environ.get(k) followed by `not value`: unset or empty.
Falsy(e, k) == k \notin DOMAIN e \/ e[k] = ""

\* missing_vars, in the order the handler appends them.
MissingVars(e) ==
    (IF Falsy(e, PROJECT_CONNECTION_STRING) THEN <<PROJECT_CONNECTION_STRING>> ELSE <<>>)
    \o (IF Falsy(e, BING_RESOURCE_NAME) THEN <<BING_RESOURCE_NAME>> ELSE <<>>)

\* The text of the EnvironmentError: the prefix, then the names joined by ", ".
MissingMessage(missing_vars) ==
    [prefix |-> "Missing environment variable(s): ", names |-> missing_vars]

EnvironmentError(missing_vars) ==
    [type |-> "EnvironmentError", message |-> MissingMessage(missing_vars)]

\* Variant of FindAgent that keeps the last match instead of the first.
FindAgentLast(list, name) ==
    LET hits == {i \in 1..Len(list) : list[i].name = name}
    IN  IF hits = {} THEN None ELSE list[Max(hits)]

\* next((a for a in agents_list if a.name == agent_name), None)
FindAgent(list, name) ==
    LET hits == {i \in 1..Len(list) : list[i].name = name}
    IN  IF hits = {} THEN None ELSE list[Min(hits)]

\* getattr(run, "last_error", "Unknown error"), as a string.
LastError(r) ==
    IF "last_error" \in DOMAIN r THEN r.last_error ELSE "Unknown error"

\* Variant of FailedResponse that also carries an (empty) answer field.
FailedResponseWithAnswer(q, r) ==
    [query |-> q, status |-> r.status, error |-> LastError(r),
     assistant_response |-> None]

\* The early return of a failed run.
FailedResponse(q, r) ==
    [query |-> q, status |-> r.status, error |-> LastError(r)]

\* next((m for m in reversed(messages_list) if m.role == "assistant"), None)
LastAssistant(list) ==
    LET hits == {i \in 1..Len(list) : list[i].role = "assistant"}
    IN  IF hits = {} THEN None ELSE list[Max(hits)]

\* 'text' in item and 'value' in item['text'] and item['text']['value']
HasTextValue(item) ==
    /\ "text" \in DOMAIN item
    /\ "value" \in DOMAIN item.text
    /\ item.text.value # <<>>

RECURSIVE ConcatText(_)
\* The loop over last_msg.content: every text value followed by a newline.
ConcatText(content) ==
    IF content = <<>> THEN <<>>
    ELSE (IF HasTextValue(Head(content))
          THEN Head(content).text.value \o <<"\n">>
          ELSE <<>>)
         \o ConcatText(Tail(content))

\* assistant_text before the strip.
AssistantText(last_msg) ==
    IF last_msg # None /\ last_msg.content # <<>>
    THEN ConcatText(last_msg.content)
    ELSE <<>>

RECURSIVE LStrip(_)
LStrip(s) ==
    IF s # <<>> /\ Head(s) \in Whitespace THEN LStrip(Tail(s)) ELSE s

RECURSIVE RStrip(_)
RStrip(s) ==
    IF s # <<>> /\ s[Len(s)] \in Whitespace
    THEN RStrip(SubSeq(s, 1, Len(s) - 1))
    ELSE s

\* Variant of Strip that trims the left end only.
StripLeftOnly(s) == LStrip(s)

\* str.strip()
Strip(s) == RStrip(LStrip(s))

\* assistant_text or None
OrNone(s) == IF s = <<>> THEN None ELSE [str |-> s]

\* The final return.
SuccessResponse(q, a, t, r, list) ==
    [query |-> q,
     agent_id |-> a.id,
     thread_id |-> t,
     run_id |-> r.id,
     run_status |-> r.status,
     assistant_response |-> OrNone(Strip(AssistantText(LastAssistant(list))))]

\* The outer except: return {"error": str(e)}
ErrorResponse(msg) == [error |-> msg]

----------------------------------------------------------------------------
(* What the platform and the environment can supply. *)

\* The environments: each required variable unset, empty or set.
Envs ==
    UNION {[D -> {"", "configured"}] :
             D \in SUBSET {PROJECT_CONNECTION_STRING, BING_RESOURCE_NAME}}

\* The agents of the project before the first request; ids are assigned in
\* creation order.
InitAgents ==
    {[i \in 1..Len(names) |-> [id |-> i, name |-> names[i]]] :
        names \in SeqsUpTo({agent_name, OtherName}, MaxInitAgents)}

\* Content blocks of a message: text blocks, a text block without a value,
\* and a block that is not text.
TextValues == {<<>>, <<" ">>, <<"a">>, <<" ", "b", "\n">>}
TextBlock(v) == [type |-> "text", text |-> [value |-> v]]
Blocks ==
    {TextBlock(v) : v \in TextValues}
    \cup {[type |-> "text", text |-> [annotations |-> <<>>]],
          [type |-> "image_file"]}

RECURSIVE Histories(_, _)
\* The contents of the assistant messages of a thread, oldest first: at most
\* m messages holding at most n blocks together.
Histories(m, n) ==
    IF m = 0 THEN {<<>>}
    ELSE {<<>>} \cup
         UNION {{<<c>> \o rest : rest \in Histories(m - 1, n - Len(c))} :
                  c \in SeqsUpTo(Blocks, n)}

\* The histories of the two-request specification.
FewHistories == {<<>>, << <<TextBlock(<<"a">>)>> >>}

\* The snapshots of run id the platform can return with a status of S.
RunSnapshots(id, S) ==
    {[id |-> id, status |-> st, last_error |-> "None"] : st \in S \ {"failed"}}
    \cup (IF "failed" \in S
          THEN {[id |-> id, status |-> "failed", last_error |-> "rate_limited"],
                [id |-> id, status |-> "failed"]}
          ELSE {})

CreatedStatuses == {"queued", "failed"}
RefreshedStatuses == {"in_progress", "completed", "failed"}

UserMessage(q, at) ==
    [role |-> "user", created_at |-> at, content |-> <<TextBlock(<<q>>)>>]

AssistantMessage(c, at) ==
    [role |-> "assistant", created_at |-> at, content |-> c]

\* Thread t with the assistant messages of history h, oldest first.
Chronological(t, h) ==
    threads[t] \o
    [i \in 1..Len(h) |-> AssistantMessage(h[i], Len(threads[t]) + i)]

----------------------------------------------------------------------------
(* The handler. *)

AgentId(a) == IF a = None THEN 0 ELSE a.id

\* Record remote call op of request r: the arguments the handler passes, the
\* error it raised ("" when it returned) and, for the run calls, the snapshot
\* it returned.
Log(r, op, err, result) ==
    calls' = [calls EXCEPT ![r] =
                Append(@, [op |-> op, thread |-> thread[r],
                           agent |-> AgentId(agent[r]), error |-> err,
                           result |-> result])]

\* Variant of Catch that swallows the failure and makes the call again.
CatchRetry(r, op, msg) ==
    /\ Log(r, op, msg, None)
    /\ UNCHANGED <<env, platform, pc, query, agents_list, agent, thread, run,
                   messages_list, response>>

\* Remote call op raises msg: the outer except returns the error payload.
Catch(r, op, msg) ==
    /\ Log(r, op, msg, None)
    /\ response' = [response EXCEPT ![r] = Returned(ErrorResponse(msg))]
    /\ pc' = [pc EXCEPT ![r] = "done"]
    /\ UNCHANGED <<env, platform, query, agents_list, agent, thread, run,
                   messages_list>>

\* Entry and step 0: the validation of the environment, outside the try.
Start(r, q) ==
    /\ pc[r] = "idle"
    /\ query' = [query EXCEPT ![r] = q]
    /\ LET missing_vars == MissingVars(env)
       IN  IF missing_vars # <<>>
           THEN /\ response' = [response EXCEPT ![r] =
                                  Raised(EnvironmentError(missing_vars))]
                /\ pc' = [pc EXCEPT ![r] = "done"]
           ELSE /\ pc' = [pc EXCEPT ![r] = "client"]
                /\ UNCHANGED response
    /\ UNCHANGED <<env, platform, agents_list, agent, thread, run,
                   messages_list, calls>>

\* Step 1: DefaultAzureCredential() and AIProjectClient(...).
InitClient(r) ==
    /\ pc[r] = "client"
    /\ \/ /\ Log(r, "client", "", None)
          /\ pc' = [pc EXCEPT ![r] = "connections.get"]
          /\ UNCHANGED <<env, platform, query, agents_list, agent, thread,
                         run, messages_list, response>>
       \/ \E e \in ErrorMsgs : Catch(r, "client", e)

\* Step 2: project_client.connections.get(bing_connection_name).
GetConnection(r) ==
    /\ pc[r] = "connections.get"
    /\ \/ /\ Log(r, "connections.get", "", None)
          /\ pc' = [pc EXCEPT ![r] = "list_agents"]
          /\ UNCHANGED <<env, platform, query, agents_list, agent, thread,
                         run, messages_list, response>>
       \/ \E e \in ErrorMsgs : Catch(r, "connections.get", e)

\* list_agents() and the search of the listing for the configured name.
ListAgents(r) ==
    /\ pc[r] = "list_agents"
    /\ \/ \E listing \in {agents, Reverse(agents)} :
            /\ Log(r, "list_agents", "", None)
            /\ agents_list' = [agents_list EXCEPT ![r] = listing]
            /\ agent' = [agent EXCEPT ![r] = FindAgent(listing, agent_name)]
            /\ pc' = [pc EXCEPT ![r] =
                        IF FindAgent(listing, agent_name) = None
                        THEN "create_agent" ELSE "threads.create"]
            /\ UNCHANGED <<env, platform, query, thread, run, messages_list,
                           response>>
       \/ \E e \in ErrorMsgs : Catch(r, "list_agents", e)

\* Variant of CreateAgent that looks the name up again and creates an agent
\* only if there is still none.
CreateAgentIfAbsent(r) ==
    /\ pc[r] = "create_agent"
    /\ \/ LET a == IF FindAgent(agents, agent_name) = None
                   THEN [id |-> Len(agents) + 1, name |-> agent_name]
                   ELSE FindAgent(agents, agent_name)
          IN  /\ Log(r, "create_agent", "", None)
              /\ agents' = IF FindAgent(agents, agent_name) = None
                           THEN Append(agents, a) ELSE agents
              /\ agent' = [agent EXCEPT ![r] = a]
              /\ pc' = [pc EXCEPT ![r] = "threads.create"]
              /\ UNCHANGED <<env, threads, nruns, query, agents_list, thread,
                             run, messages_list, response>>
       \/ \E e \in ErrorMsgs : Catch(r, "create_agent", e)

\* create_agent(...), reached only when the listing had no match.
CreateAgent(r) ==
    /\ pc[r] = "create_agent"
    /\ \/ LET a == [id |-> Len(agents) + 1, name |-> agent_name]
          IN  /\ Log(r, "create_agent", "", None)
              /\ agents' = Append(agents, a)
              /\ agent' = [agent EXCEPT ![r] = a]
              /\ pc' = [pc EXCEPT ![r] = "threads.create"]
              /\ UNCHANGED <<env, threads, nruns, query, agents_list, thread,
                             run, messages_list, response>>
       \/ \E e \in ErrorMsgs : Catch(r, "create_agent", e)

\* Variant of CreateThread that reuses the newest thread when there is one.
CreateThreadReuse(r) ==
    /\ pc[r] = "threads.create"
    /\ \/ /\ Log(r, "threads.create", "", None)
          /\ threads' = IF threads = <<>> THEN <<  <<>>  >> ELSE threads
          /\ thread' = [thread EXCEPT ![r] = Len(threads')]
          /\ pc' = [pc EXCEPT ![r] = "messages.create"]
          /\ UNCHANGED <<env, agents, nruns, query, agents_list, agent, run,
                         messages_list, response>>
       \/ \E e \in ErrorMsgs : Catch(r, "threads.create", e)

\* Step 4: threads.create().
CreateThread(r) ==
    /\ pc[r] = "threads.create"
    /\ \/ /\ Log(r, "threads.create", "", None)
          /\ threads' = Append(threads, <<>>)
          /\ thread' = [thread EXCEPT ![r] = Len(threads) + 1]
          /\ pc' = [pc EXCEPT ![r] = "messages.create"]
          /\ UNCHANGED <<env, agents, nruns, query, agents_list, agent, run,
                         messages_list, response>>
       \/ \E e \in ErrorMsgs : Catch(r, "threads.create", e)

\* Step 5: messages.create(thread_id, role="user", content=query).
CreateMessage(r) ==
    /\ pc[r] = "messages.create"
    /\ \/ /\ Log(r, "messages.create", "", None)
          /\ threads' = [threads EXCEPT ![thread[r]] =
                           Append(@, UserMessage(query[r], Len(@) + 1))]
          /\ pc' = [pc EXCEPT ![r] = "runs.create"]
          /\ UNCHANGED <<env, agents, nruns, query, agents_list, agent,
                         thread, run, messages_list, response>>
       \/ \E e \in ErrorMsgs : Catch(r, "messages.create", e)

\* Step 6: runs.create(thread_id, agent_id); the snapshot it returns.
CreateRun(r) ==
    /\ pc[r] = "runs.create"
    /\ \/ \E snapshot \in RunSnapshots(nruns + 1, CreatedStatuses) :
            /\ Log(r, "runs.create", "", snapshot)
            /\ nruns' = nruns + 1
            /\ run' = [run EXCEPT ![r] = snapshot]
            /\ pc' = [pc EXCEPT ![r] = "runs.get"]
            /\ UNCHANGED <<env, agents, threads, query, agents_list, agent,
                           thread, messages_list, response>>
       \/ \E e \in ErrorMsgs : Catch(r, "runs.create", e)

\* The check of run.status after the refresh: the early return of a failed
\* run, or on to step 7.
AfterRefresh(r, current) ==
    /\ run' = [run EXCEPT ![r] = current]
    /\ IF current.status = "failed"
       THEN /\ response' = [response EXCEPT ![r] =
                              Returned(FailedResponse(query[r], current))]
            /\ pc' = [pc EXCEPT ![r] = "done"]
       ELSE /\ pc' = [pc EXCEPT ![r] = "messages.list"]
            /\ UNCHANGED response
    /\ UNCHANGED <<env, platform, query, agents_list, agent, thread,
                   messages_list>>

\* Variant of RefreshRun without the inner try: a failed refresh reaches the
\* outer except.
RefreshRunStrict(r) ==
    /\ pc[r] = "runs.get"
    /\ \/ \E snapshot \in RunSnapshots(run[r].id, RefreshedStatuses) :
            Log(r, "runs.get", "", snapshot) /\ AfterRefresh(r, snapshot)
       \/ \E e \in ErrorMsgs : Catch(r, "runs.get", e)

\* Variant of RefreshRun that reads the status again while the run is in
\* progress.
RefreshRunPoll(r) ==
    /\ pc[r] = "runs.get"
    /\ \/ \E snapshot \in RunSnapshots(run[r].id, RefreshedStatuses) :
            /\ Log(r, "runs.get", "", snapshot)
            /\ IF snapshot.status = "in_progress"
               THEN /\ run' = [run EXCEPT ![r] = snapshot]
                    /\ UNCHANGED <<env, platform, pc, query, agents_list,
                                   agent, thread, messages_list, response>>
               ELSE AfterRefresh(r, snapshot)
       \/ \E e \in ErrorMsgs :
            Log(r, "runs.get", e, None) /\ AfterRefresh(r, run[r])

\* The wait, then runs.get(thread_id, run_id) inside its own try: a failure
\* is printed and the snapshot of runs.create is kept.
RefreshRun(r) ==
    /\ pc[r] = "runs.get"
    /\ \/ \E snapshot \in RunSnapshots(run[r].id, RefreshedStatuses) :
            Log(r, "runs.get", "", snapshot) /\ AfterRefresh(r, snapshot)
       \/ \E e \in ErrorMsgs :
            Log(r, "runs.get", e, None) /\ AfterRefresh(r, run[r])

\* Step 7: messages.list(thread_id), the extraction and the final return.
ListMessages(r, histories) ==
    /\ pc[r] = "messages.list"
    /\ \/ \E h \in histories, order \in {"asc", "desc"} :
            LET listing == IF order = "asc"
                           THEN Chronological(thread[r], h)
                           ELSE Reverse(Chronological(thread[r], h))
            IN  /\ Log(r, "messages.list", "", None)
                /\ messages_list' = [messages_list EXCEPT ![r] = listing]
                /\ response' = [response EXCEPT ![r] =
                      Returned(SuccessResponse(query[r], agent[r], thread[r],
                                               run[r], listing))]
                /\ pc' = [pc EXCEPT ![r] = "done"]
                /\ UNCHANGED <<env, platform, query, agents_list, agent,
                               thread, run>>
       \/ \E e \in ErrorMsgs : Catch(r, "messages.list", e)

----------------------------------------------------------------------------
(* Specifications. *)

Init ==
    /\ env \in Envs
    /\ agents \in InitAgents
    /\ threads = <<>>
    /\ nruns = 0
    /\ pc = [r \in Requests |-> "idle"]
    /\ query = [r \in Requests |-> ""]
    /\ agents_list = [r \in Requests |-> <<>>]
    /\ agent = [r \in Requests |-> None]
    /\ thread = [r \in Requests |-> 0]
    /\ run = [r \in Requests |-> None]
    /\ messages_list = [r \in Requests |-> <<>>]
    /\ response = [r \in Requests |-> Pending]
    /\ calls = [r \in Requests |-> <<>>]

\* A step of request r after its start: its next remote call, answered from
\* histories when it lists the messages.
Step(r, histories) ==
    \/ InitClient(r)
    \/ GetConnection(r)
    \/ ListAgents(r)
    \/ CreateAgent(r)
    \/ CreateThread(r)
    \/ CreateMessage(r)
    \/ CreateRun(r)
    \/ RefreshRun(r)
    \/ ListMessages(r, histories)

\* Two requests that do not overlap: a request starts only when no other is
\* in progress, as when one event loop runs the handler, which never awaits.
Next ==
    \E r \in Requests :
        \/ /\ \A o \in Requests \ {r} : pc[o] \in {"idle", "done"}
           /\ Start(r, QueryOf[r])
        \/ Step(r, FewHistories)

Spec == Init /\ [][Next]_vars

\* Two requests interleaved at the remote calls, as when several workers run
\* the handler.
NextRace ==
    \E r \in Requests :
        \/ Start(r, QueryOf[r])
        \/ Step(r, FewHistories)

SpecRace == Init /\ [][NextRace]_vars

\* One request, with every thread history within the bounds.
NextOne ==
    \/ Start("r1", QueryOf["r1"])
    \/ Step("r1", Histories(MaxAssistantMsgs, MaxBlocks))

SpecOne == Init /\ [][NextOne]_vars

----------------------------------------------------------------------------
(* Vocabulary of the properties. *)

Required == {PROJECT_CONNECTION_STRING, BING_RESOURCE_NAME}

\* The required variables that are unset or empty.
Missing == {k \in Required : k \notin DOMAIN env \/ env[k] = ""}

Elements(s) == {s[i] : i \in 1..Len(s)}

\* The positions of the calls of op in the log of request r.
CallsOf(r, op) == {i \in 1..Len(calls[r]) : calls[r][i].op = op}

\* op was called by request r and returned.
Returned_(r, op) == \E i \in CallsOf(r, op) : calls[r][i].error = ""

\* op was called by request r and raised.
Raised_(r, op) == \E i \in CallsOf(r, op) : calls[r][i].error # ""

\* The positions of the agents of the configured name in a listing.
NameMatches(list) == {i \in 1..Len(list) : list[i].name = agent_name}

\* Request r returned the success-shaped body.
Succeeded(r) ==
    /\ response[r].outcome = "returned"
    /\ DOMAIN response[r].body =
         {"query", "agent_id", "thread_id", "run_id", "run_status",
          "assistant_response"}

\* The assistant messages of a listing.
AssistantMsgs(list) == {m \in Elements(list) : m.role = "assistant"}

\* The non-empty text values of a message's content blocks, in order.
TextValuesOf(m) ==
    LET isText(b) == "text" \in DOMAIN b /\ "value" \in DOMAIN b.text
                     /\ Len(b.text.value) > 0
    IN  [i \in 1..Cardinality({j \in 1..Len(m.content) : isText(m.content[j])}) |->
           LET k == CHOOSE k \in 1..Len(m.content) :
                      /\ isText(m.content[k])
                      /\ Cardinality({j \in 1..k : isText(m.content[j])}) = i
           IN  m.content[k].text.value]

RECURSIVE JoinLines(_)
\* The values joined by newlines (a separator, not a terminator).
JoinLines(values) ==
    IF Len(values) = 0 THEN <<>>
    ELSE IF Len(values) = 1 THEN values[1]
    ELSE values[1] \o <<"\n">> \o JoinLines(Tail(values))

\* s without its leading and trailing whitespace: the part from the first to
\* the last character that is not whitespace.
Trimmed(s) ==
    LET solid == {i \in 1..Len(s) : s[i] \notin Whitespace}
    IN  IF solid = {} THEN <<>> ELSE SubSeq(s, Min(solid), Max(solid))

\* The answer a message stands for: its trimmed, newline-joined text, or null
\* when nothing is left.
AnswerOf(m) ==
    LET t == Trimmed(JoinLines(TextValuesOf(m)))
    IN  IF t = <<>> THEN None ELSE [str |-> t]

----------------------------------------------------------------------------
(* C1 *)

\* C1: a request handled with a required variable missing returns the error
\* payload naming exactly the missing keys (no exception leaves the handler)
\* and makes no remote call.
C1_ConfigErrorIsPayload ==
    \A r \in Requests :
        (pc[r] # "idle" /\ Missing # {}) =>
            /\ calls[r] = <<>>
            /\ response[r].outcome = "returned"
            /\ DOMAIN response[r].body = {"error"}
            /\ Elements(response[r].body.error.names) = Missing

----------------------------------------------------------------------------
(* C2 *)

\* C2: when the run status held after the wait and refresh is "failed", the
\* response is exactly {query, status: "failed", error: last-error detail},
\* with no assistant_response, agent_id, thread_id or run_id, and the thread's
\* messages are never listed.
C2_FailedRunResponse ==
    \A r \in Requests :
        (CallsOf(r, "runs.get") # {} /\ run[r].status = "failed") =>
            /\ response[r].outcome = "returned"
            /\ DOMAIN response[r].body = {"query", "status", "error"}
            /\ response[r].body.query = query[r]
            /\ response[r].body.status = "failed"
            /\ response[r].body.error =
                 (IF "last_error" \in DOMAIN run[r]
                  THEN run[r].last_error ELSE "Unknown error")
            /\ CallsOf(r, "messages.list") = {}

C2_Witness ==
    \E r \in Requests :
        /\ CallsOf(r, "runs.get") # {}
        /\ run[r] = [id |-> run[r].id, status |-> "failed",
                     last_error |-> "rate_limited"]
        /\ response[r] =
             Returned([query |-> query[r], status |-> "failed",
                       error |-> "rate_limited"])

----------------------------------------------------------------------------
(* C3 *)

----------------------------------------------------------------------------
(* C4 *)

\* C4: when the listed thread holds more than one assistant message, the
\* answer is built from the most recently created one, whatever the order of
\* the listing.
C4_NewestAssistantMessage ==
    \A r \in Requests :
        (Succeeded(r) /\ Cardinality(AssistantMsgs(messages_list[r])) > 1) =>
            LET newest == CHOOSE m \in AssistantMsgs(messages_list[r]) :
                            \A o \in AssistantMsgs(messages_list[r]) :
                               o.created_at <= m.created_at
            IN  response[r].body.assistant_response = AnswerOf(newest)

----------------------------------------------------------------------------
(* C5 *)

\* C5: a request that lists its thread's messages returns the success-shaped
\* body, with run_status the observed status and assistant_response the
\* newline-joined, trimmed text values of the selected assistant message, or
\* null when there is no assistant message or no text is left.
C5_AnswerText ==
    \A r \in Requests :
        Returned_(r, "messages.list") =>
            /\ Succeeded(r)
            /\ response[r].body.run_status = run[r].status
            /\ response[r].body.assistant_response =
                 (IF AssistantMsgs(messages_list[r]) = {} THEN None
                  ELSE AnswerOf(LastAssistant(messages_list[r])))

C5_Witness ==
    \E r \in Requests :
        /\ Returned_(r, "messages.list")
        /\ response[r].body.run_status = "completed"
        /\ AssistantMsgs(messages_list[r]) # {}
        /\ Len(LastAssistant(messages_list[r]).content) = 2
        /\ response[r].body.assistant_response =
             [str |-> <<"a", "\n", " ", "b">>]

----------------------------------------------------------------------------
(* C6 *)

\* Every request that has a thread made exactly one threads.create call, no
\* other request has the same thread, and the platform holds exactly one
\* thread for each such request.
C6_FreshThreads ==
    /\ \A r \in Requests :
         thread[r] # 0 =>
            /\ Cardinality(CallsOf(r, "threads.create")) = 1
            /\ \A o \in Requests \ {r} : thread[o] # thread[r]
    /\ Len(threads) = Cardinality({r \in Requests : thread[r] # 0})

----------------------------------------------------------------------------
(* C7 *)

\* C7: when a remote call other than the run refresh raises, the request ends
\* with the body {error: <the failure's string>}; the call is not made again
\* and no later remote call is made.
C7_FailureEndsRequest ==
    \A r \in Requests :
        \A i \in 1..Len(calls[r]) :
            (calls[r][i].error # "" /\ calls[r][i].op # "runs.get") =>
                /\ i = Len(calls[r])
                /\ Cardinality(CallsOf(r, calls[r][i].op)) = 1
                /\ pc[r] = "done"
                /\ response[r] = Returned([error |-> calls[r][i].error])

C7_Witness ==
    \E r \in Requests :
        /\ Raised_(r, "messages.list")
        /\ Raised_(r, "runs.get")
        /\ response[r] = Returned([error |-> "timeout"])

----------------------------------------------------------------------------
(* C8 *)

\* The snapshot runs.create returned to request r.
CreatedSnapshot(r) ==
    calls[r][CHOOSE i \in CallsOf(r, "runs.create") : TRUE].result

\* C8: when the run refresh raises, the request does not end in the error
\* payload of that failure: the handler keeps the snapshot of runs.create, so
\* the failed-run check, run_id and run_status use it, and the messages are
\* listed unless that snapshot is "failed".
C8_StaleSnapshotKept ==
    \A r \in Requests :
        Raised_(r, "runs.get") =>
            /\ run[r] = CreatedSnapshot(r)
            /\ IF CreatedSnapshot(r).status = "failed"
               THEN /\ response[r].outcome = "returned"
                    /\ DOMAIN response[r].body = {"query", "status", "error"}
                    /\ response[r].body.status = "failed"
                    /\ CallsOf(r, "messages.list") = {}
               ELSE /\ pc[r] = "messages.list" \/ CallsOf(r, "messages.list") # {}
                    /\ Returned_(r, "messages.list") =>
                         /\ Succeeded(r)
                         /\ response[r].body.run_id = CreatedSnapshot(r).id
                         /\ response[r].body.run_status = CreatedSnapshot(r).status

C8_Witness ==
    \E r \in Requests :
        /\ Raised_(r, "runs.get")
        /\ Succeeded(r)
        /\ response[r].body.run_status = "queued"
        /\ response[r].body.assistant_response = [str |-> <<"a">>]

----------------------------------------------------------------------------
(* C9 *)

\* Request r listed the agents, found none of the configured name and
\* created one.
CreatedOwnAgent(r) ==
    /\ Returned_(r, "list_agents")
    /\ NameMatches(agents_list[r]) = {}
    /\ Returned_(r, "create_agent")

\* C9: two requests that both list the agents before either creates one both
\* create an agent: the platform then holds two agents of the configured name
\* and the two responses carry different agent ids.
C9_RacingRequestsDuplicate ==
    \A r \in Requests : \A o \in Requests \ {r} :
        (CreatedOwnAgent(r) /\ CreatedOwnAgent(o)) =>
            /\ agent[r].id # agent[o].id
            /\ Cardinality(NameMatches(agents)) >= 2
            /\ (Succeeded(r) /\ Succeeded(o)) =>
                 response[r].body.agent_id # response[o].body.agent_id

C9_Witness ==
    /\ \A r \in Requests : CreatedOwnAgent(r) /\ Succeeded(r)
    /\ Cardinality(NameMatches(agents)) = 2
    /\ Cardinality({response[r].body.agent_id : r \in Requests}) = 2

----------------------------------------------------------------------------
(* C10 *)

\* The remote calls of a request, in the order of the handler.
CallOrder ==
    <<"client", "connections.get", "list_agents", "create_agent",
      "threads.create", "messages.create", "runs.create", "runs.get",
      "messages.list">>

\* The same order for a request that finds its agent in the listing.
ReuseOrder ==
    <<"client", "connections.get", "list_agents",
      "threads.create", "messages.create", "runs.create", "runs.get",
      "messages.list">>

CallNames == Elements(CallOrder)

\* The calls of request r so far are the first calls of order.
Follows(r, order) ==
    /\ Len(calls[r]) <= Len(order)
    /\ \A i \in 1..Len(calls[r]) : calls[r][i].op = order[i]

\* The calls of request r are made in the handler's order, each at most
\* once, none skipped but create_agent; create_agent is made exactly when the
\* listing has no match, messages.list only when the status read is not
\* "failed", and the thread and agent arguments are those of the request.
OrderedCalls(r) ==
    /\ Follows(r, CallOrder) \/ Follows(r, ReuseOrder)
    /\ CallsOf(r, "threads.create") # {} =>
         (CallsOf(r, "create_agent") = {} <=> NameMatches(agents_list[r]) # {})
    /\ \A i \in CallsOf(r, "messages.create") \cup CallsOf(r, "runs.create") :
         calls[r][i].thread = thread[r] /\ thread[r] # 0
    /\ \A i \in CallsOf(r, "runs.create") :
         calls[r][i].agent = agent[r].id
    /\ CallsOf(r, "messages.list") # {} => run[r].status # "failed"
    /\ (pc[r] = "done" /\ Returned_(r, "runs.create")) =>
         Cardinality(CallsOf(r, "runs.get")) = 1

\* The calls are ordered; a request under way is about to make a call of the
\* order, and a request that is done has its response.
C10_Order ==
    \A r \in Requests :
        /\ OrderedCalls(r)
        /\ pc[r] \in {"idle", "done"} \cup CallNames
        /\ pc[r] = "done" <=> response[r].outcome # "pending"

====
